---- MODULE Spec2Model ----
(***************************************************************************)
(* A model of src/main.py, the PDF to SVG cropper (class PdfToSvgCropper). *)
(*                                                                         *)
(* Reals are exact rationals <<n, d>> in lowest terms (d > 0); the user    *)
(* zoom level is kept in thousandths (1000 = 1.0x) with truncation, which  *)
(* stands for the float product of _on_zoom.  A missing value (Python's    *)
(* None, an unset attribute) of a tuple-valued field is the empty tuple;   *)
(* a missing document or text is the string "None".                        *)
(***************************************************************************)
EXTENDS Integers, Sequences, FiniteSets, TLC

VARIABLES
    doc,                \* self.doc: the open document (named by its path) or NoDoc
    pdf_path,           \* self.pdf_path
    page_index,         \* self.page_index
    scale,              \* self.scale, a rational
    zoom_level,         \* self.zoom_level, in thousandths
    auto_fit,           \* self.auto_fit
    base_scale,         \* self.base_scale, a rational; <<>> while the attribute is unset
    photo,              \* self.photo as <<width, height>>; <<>> while None
    img_origin,         \* self.img_origin; <<>> while the attribute is unset
    sel_start,          \* self.sel_start; <<>> while None
    sel_end,            \* self.sel_end; <<>> while None
    sel_drawn,          \* history: <<page_index, scale>> at the mouse-down that began the selection
    recent_files,       \* self.recent_files
    preserve_text,      \* the four BooleanVar toggles
    remove_kerning,
    remove_background,
    convert_grayscale,
    canvas,             \* <<winfo_width, winfo_height>> of the canvas widget
    timers,             \* pending self.after(50, self._render_current_page) callbacks
    clipboard,          \* the system clipboard's content
    saved,              \* the content of the file written by the last successful export
    dialog,             \* the last dialog shown: <<kind, title, text>>
    pdf_rect,           \* the last call of _selection_pdf_rect: what it read and returned
    elements,           \* the elements of a document handed to a rewrite pass
    svg,                \* that document's text
    pass,               \* the rewrite pass last applied to svg
    svg_out             \* what that pass returned

appVars == <<doc, pdf_path, page_index, scale, zoom_level, auto_fit, base_scale,
             photo, img_origin, sel_start, sel_end, sel_drawn, recent_files,
             preserve_text, remove_kerning, remove_background, convert_grayscale,
             canvas, timers, clipboard, saved, dialog>>
passVars == <<elements, svg, pass, svg_out>>
vars == <<appVars, pdf_rect, passVars>>

NoDoc == "None"
NoText == "None"
None == <<>>

---------------------------------------------------------------------------
(* Rational arithmetic *)

RECURSIVE GCD(_, _)
GCD(a, b) == IF b = 0 THEN a ELSE GCD(b, a % b)

Abs(a) == IF a < 0 THEN -a ELSE a

\* n/d in lowest terms, d > 0
Rat(n, d) ==
    LET g == GCD(Abs(n), Abs(d))
        s == IF d < 0 THEN -1 ELSE 1
    IN <<(s * n) \div g, (s * d) \div g>>

\* a <= b, for rationals in lowest terms
RatLeq(a, b) ==
    LET g == GCD(a[2], b[2])
    IN a[1] * (b[2] \div g) <= b[1] * (a[2] \div g)

\* k * r and a * b, for rationals in lowest terms
IntTimesRat(k, r) ==
    LET g == GCD(Abs(k), r[2])
    IN IF k = 0 THEN <<0, 1>> ELSE <<(k \div g) * r[1], r[2] \div g>>

RatMul(a, b) ==
    LET g1 == GCD(Abs(a[1]), b[2])
        g2 == GCD(Abs(b[1]), a[2])
    IN IF a[1] = 0 \/ b[1] = 0 THEN <<0, 1>>
       ELSE <<(a[1] \div g1) * (b[1] \div g2), (a[2] \div g2) * (b[2] \div g1)>>

Min(a, b) == IF a < b THEN a ELSE b
Max(a, b) == IF a > b THEN a ELSE b

\* the least integer >= n/d, for d > 0
CeilDiv(n, d) == -((-n) \div d)

---------------------------------------------------------------------------
(* Program constants *)

Padding == 16
MinTargetWidth == 100
MaxRecent == 10
ZoomUnit == 1000
MinZoom == 100
MaxZoom == 10000
ZoomInFactor == 1100
ZoomOutFactor == 900
MinScaleInverse == 1000000

(* Bounds of the model *)
MaxTimers == 1
\* the zoom levels followed are those within MaxZoomEvents events of 1.0x
MaxZoomEvents == 1
\* the elements of a document handed to a rewrite pass
MaxElements == 2

---------------------------------------------------------------------------
(* The environment: files, pages, the canvas widget, the mouse *)

\* the working directory of the process
Cwd == "/cwd"

\* nine one-page files opened in earlier runs, the latest first
OlderFiles == [i \in 1..(MaxRecent - 1) |-> "/f" \o ToString(i) \o ".pdf"]

OlderFileSet == {OlderFiles[i] : i \in 1..Len(OlderFiles)}

\* paths fitz.open can open, with their page counts; any other path raises
\* ("c.pdf" is /cwd/c.pdf, named relative to the working directory)
PageCount(path) ==
    CASE path = "/a.pdf" -> 2
      [] path = "/b.pdf" -> 3
      [] path = "/tmp/dl.pdf" -> 2
      [] path = "/huge.pdf" -> 1
      [] path \in {"c.pdf", "/cwd/c.pdf"} -> 2
      [] path \in OlderFileSet -> 1
      [] OTHER -> 0

Openable ==
    {"/a.pdf", "/b.pdf", "/tmp/dl.pdf", "/huge.pdf", "c.pdf", "/cwd/c.pdf"} \cup OlderFileSet

\* what the file dialog of open_pdf can return ("" when dismissed)
OpenChoices == {"", "/a.pdf", "/b.pdf", "/broken.pdf", "/huge.pdf"}

\* files that exist on disk (Path.exists)
Existing ==
    {"/a.pdf", "/b.pdf", "/broken.pdf", "/huge.pdf", "c.pdf", "/cwd/c.pdf"} \cup OlderFileSet

\* what ~/.pdf_to_svg_recent.json may hold at start, written by an earlier run:
\* nothing, nine files, ten files, or ten of which one ("/old.pdf") is gone
SavedLists ==
    {<<>>, OlderFiles, OlderFiles \o <<"/a.pdf">>, OlderFiles \o <<"/old.pdf">>}

\* page.rect of page p of document d, as <<width, height>> in points
PageRect(d, p) ==
    IF d = "/b.pdf" /\ p = 1 THEN <<192, 96>>
    ELSE IF d = "/huge.pdf" THEN <<1000000000, 500000000>>
    ELSE <<96, 48>>

\* the canvas before it is mapped
Unrealized == <<1, 1>>

\* sizes of the mapped canvas (the window's minsize is 800 x 900)
RealizedSizes == {<<800, 860>>, <<1000, 860>>}

\* canvas coordinates of mouse events
MouseXs == {10, 16, 30, 500}
MouseYs == {100, 300, 500}

---------------------------------------------------------------------------
(* Selection geometry *)

Clamp(v, hi) == Min(Max(0, v), hi)

PointInsideImage(x, y) ==
    IF photo = None THEN FALSE
    ELSE 0 <= x /\ x < photo[1] /\ 0 <= y /\ y < photo[2]

\* a variant of _get_selection_rect_image_coords that does not clamp the selection
\* to the image
GetSelectionRectUnclamped ==
    IF sel_start = None \/ sel_end = None \/ photo = None THEN None
    ELSE LET rx0 == Min(sel_start[1], sel_end[1])
             ry0 == Min(sel_start[2], sel_end[2])
             rx1 == Max(sel_start[1], sel_end[1])
             ry1 == Max(sel_start[2], sel_end[2])
         IN IF rx1 - rx0 < 1 \/ ry1 - ry0 < 1 THEN None
            ELSE <<rx0, ry0, rx1, ry1>>

\* _get_selection_rect_image_coords: <<rx0, ry0, rx1, ry1>> or None
GetSelectionRectImageCoords ==
    IF sel_start = None \/ sel_end = None \/ photo = None THEN None
    ELSE LET x0 == Clamp(sel_start[1], photo[1])
             y0 == Clamp(sel_start[2], photo[2])
             x1 == Clamp(sel_end[1], photo[1])
             y1 == Clamp(sel_end[2], photo[2])
             rx0 == Min(x0, x1)
             ry0 == Min(y0, y1)
             rx1 == Max(x0, x1)
             ry1 == Max(y0, y1)
         IN IF rx1 - rx0 < 1 \/ ry1 - ry0 < 1 THEN None
            ELSE <<rx0, ry0, rx1, ry1>>

\* 1.0 / max(self.scale, 1e-6)
PxToPt ==
    IF scale[1] <= (scale[2] - 1) \div MinScaleInverse
    THEN <<MinScaleInverse, 1>>
    ELSE <<scale[2], scale[1]>>

\* a variant of _selection_pdf_rect that measures y from the bottom of the image, as
\* PDF's own coordinate system does
SelectionPdfRectBottomUp ==
    LET sel == GetSelectionRectImageCoords
    IN IF sel = None \/ doc = NoDoc THEN None
       ELSE <<IntTimesRat(sel[1], PxToPt), IntTimesRat(photo[2] - sel[4], PxToPt),
              IntTimesRat(sel[3], PxToPt), IntTimesRat(photo[2] - sel[2], PxToPt)>>

\* _selection_pdf_rect: fitz.Rect(left, top, right, bottom) or None
SelectionPdfRect ==
    LET sel == GetSelectionRectImageCoords
    IN IF sel = None \/ doc = NoDoc THEN None
       ELSE [i \in 1..4 |-> IntTimesRat(sel[i], PxToPt)]

\* a call of _selection_pdf_rect
CallSelectionPdfRect ==
    /\ pdf_rect' = [sel |-> IF doc = NoDoc THEN None ELSE GetSelectionRectImageCoords,
                    scale |-> scale, rect |-> SelectionPdfRect]
    /\ UNCHANGED <<appVars, passVars>>

\* fitz.Rect.__bool__: false only when all four coordinates are 0
RectTruthy(r) == \E i \in 1..4 : r[i][1] # 0

\* r.width <= 0 or r.height <= 0
RectEmpty(r) == RatLeq(r[3], r[1]) \/ RatLeq(r[4], r[2])

---------------------------------------------------------------------------
(* Strings, as Python handles them *)

Char(s, i) == SubSeq(s, i, i)

IsSpace(c) == c \in {" ", "\t", "\n", "\r"}
IsDigit(c) == c \in {"0", "1", "2", "3", "4", "5", "6", "7", "8", "9"}
DigitValue(c) == CHOOSE v \in 0..9 : Char("0123456789", v + 1) = c

\* s[from:] and s[:to]
Drop(s, n) == SubSeq(s, n + 1, Len(s))
Take(s, n) == SubSeq(s, 1, n)

StartsWith(s, prefix) == Len(s) >= Len(prefix) /\ Take(s, Len(prefix)) = prefix

\* prefix occurs in s at position i
OccursAt(s, prefix, i) ==
    i >= 1 /\ i + Len(prefix) - 1 <= Len(s) /\ SubSeq(s, i, i + Len(prefix) - 1) = prefix

\* `prefix in s`
Contains(s, sub) == \E i \in 1..Len(s) : OccursAt(s, sub, i)

\* the first position >= from where sub occurs, or 0
Find(s, sub, from) ==
    LET hits == {i \in from..Len(s) : OccursAt(s, sub, i)}
    IN IF hits = {} THEN 0 ELSE CHOOSE i \in hits : \A j \in hits : i <= j

\* str.strip()
RECURSIVE LStrip(_)
LStrip(s) == IF Len(s) > 0 /\ IsSpace(Char(s, 1)) THEN LStrip(Drop(s, 1)) ELSE s
RECURSIVE RStrip(_)
RStrip(s) == IF Len(s) > 0 /\ IsSpace(Char(s, Len(s))) THEN RStrip(Take(s, Len(s) - 1)) ELSE s
Strip(s) == RStrip(LStrip(s))

RECURSIVE DigitsValue(_)
DigitsValue(s) ==
    IF Len(s) = 0 THEN 0
    ELSE 10 * DigitsValue(Take(s, Len(s) - 1)) + DigitValue(Char(s, Len(s)))

\* int(s): <<TRUE, value>>, or <<FALSE, 0>> where Python raises ValueError
PyInt(s) ==
    LET t == Strip(s)
        signed == Len(t) > 0 /\ Char(t, 1) \in {"+", "-"}
        body == IF signed THEN Drop(t, 1) ELSE t
    IN IF Len(body) > 0 /\ \A i \in 1..Len(body) : IsDigit(Char(body, i))
       THEN <<TRUE, IF signed /\ Char(t, 1) = "-" THEN -DigitsValue(body) ELSE DigitsValue(body)>>
       ELSE <<FALSE, 0>>

\* s.split(sep): the pieces of s between occurrences of the one-character sep
RECURSIVE SplitOn(_, _)
SplitOn(s, sep) ==
    LET i == Find(s, sep, 1)
    IN IF i = 0 THEN <<s>> ELSE <<Take(s, i - 1)>> \o SplitOn(Drop(s, i), sep)

\* sep.join(parts)
RECURSIVE Join(_, _)
Join(parts, sep) ==
    IF Len(parts) = 0 THEN ""
    ELSE IF Len(parts) = 1 THEN parts[1]
    ELSE parts[1] \o sep \o Join(Tail(parts), sep)

---------------------------------------------------------------------------
(* Rendering and the selection *)

toggleVars == <<preserve_text, remove_kerning, remove_background, convert_grayscale>>
outputVars == <<clipboard, saved>>
renderVars == <<scale, base_scale, photo, img_origin, sel_start, sel_end, sel_drawn, timers>>
docVars == <<doc, pdf_path, page_index, recent_files>>
pureVars == <<pdf_rect, elements, svg, pass, svg_out>>

\* page.get_pixmap(matrix=Matrix(sc, sc)): the size of the rendered image
PixmapSize(d, p, sc) ==
    LET w == IntTimesRat(PageRect(d, p)[1], sc)
        h == IntTimesRat(PageRect(d, p)[2], sc)
    IN <<CeilDiv(w[1], w[2]), CeilDiv(h[1], h[2])>>

\* a variant of _clear_selection that leaves the selection in place
KeepSelection == UNCHANGED <<sel_start, sel_end, sel_drawn>>

\* _clear_selection
ClearSelection ==
    /\ sel_start' = None
    /\ sel_end' = None
    /\ sel_drawn' = None

\* _render_current_page, run with document d, page p, zoom z, auto-fit af, canvas
\* size cv and t callbacks pending
RenderCurrentPage(d, p, z, af, cv, t) ==
    IF d = NoDoc
    THEN timers' = t /\ UNCHANGED <<scale, base_scale, photo, img_origin, sel_start, sel_end, sel_drawn>>
    ELSE
      LET c_w == Max(cv[1], 1)
          c_h == Max(cv[2], 1)
      IN IF c_w <= 1 \/ c_h <= 1
         THEN /\ t < MaxTimers
              /\ timers' = t + 1
              /\ UNCHANGED <<scale, base_scale, photo, img_origin, sel_start, sel_end, sel_drawn>>
         ELSE
           LET target_w == Max(c_w - Padding * 2, MinTargetWidth)
               bs == IF af THEN Rat(target_w, PageRect(d, p)[1])
                     ELSE IF base_scale = None THEN <<1, 1>> ELSE base_scale
               sc == RatMul(bs, Rat(z, ZoomUnit))
               pix == PixmapSize(d, p, sc)
               x_off == (c_w - pix[1]) \div 2
               y_off == Max((c_h - pix[2]) \div 2, 0)
           IN /\ base_scale' = bs
              /\ scale' = sc
              /\ photo' = pix
              /\ img_origin' = <<x_off, y_off>>
              /\ ClearSelection
              /\ timers' = t

\* the callback scheduled by self.after(50, self._render_current_page)
RenderLater ==
    /\ timers > 0
    /\ RenderCurrentPage(doc, page_index, zoom_level, auto_fit, canvas, timers - 1)
    /\ UNCHANGED <<docVars, zoom_level, auto_fit, toggleVars, canvas, outputVars, dialog, pureVars>>

\* <Configure>: _on_canvas_resize
OnCanvasResize(size) ==
    /\ canvas' = size
    /\ RenderCurrentPage(doc, page_index, zoom_level, auto_fit, size, timers)
    /\ UNCHANGED <<docVars, zoom_level, auto_fit, toggleVars, outputVars, dialog, pureVars>>

\* a variant of the new zoom level without the clamp of line 352
NewZoomUnclamped(z, dir) ==
    LET zoom_factor == IF dir = "in" THEN ZoomInFactor ELSE ZoomOutFactor
    IN (z * zoom_factor) \div ZoomUnit

\* lines 342-352 of _on_zoom: the zoom level after an event in direction dir
NewZoom(z, dir) ==
    LET zoom_factor == IF dir = "in" THEN ZoomInFactor ELSE ZoomOutFactor
    IN Max(MinZoom, Min(MaxZoom, (z * zoom_factor) \div ZoomUnit))

\* _on_zoom; dir is "in" (event.num == 4 or delta > 0), "out" (5 or delta < 0) or "none"
OnZoom(dir) ==
    IF doc = NoDoc \/ dir = "none"
    THEN UNCHANGED vars
    ELSE
      LET new_zoom == NewZoom(zoom_level, dir)
      IN IF new_zoom # zoom_level
         THEN /\ zoom_level' = new_zoom
              /\ auto_fit' = FALSE
              /\ RenderCurrentPage(doc, page_index, new_zoom, FALSE, canvas, timers)
              /\ UNCHANGED <<docVars, toggleVars, canvas, outputVars, dialog, pureVars>>
         ELSE UNCHANGED vars

\* _on_mouse_down at canvas point (ex, ey)
OnMouseDown(ex, ey) ==
    IF doc = NoDoc \/ img_origin = None
    THEN UNCHANGED vars
    ELSE
      LET x0 == ex - img_origin[1]
          y0 == ey - img_origin[2]
      IN IF ~PointInsideImage(x0, y0)
         THEN UNCHANGED vars
         ELSE /\ sel_start' = <<Max(0, x0), Max(0, y0)>>
              /\ sel_end' = sel_start'
              /\ sel_drawn' = <<page_index, scale>>
              /\ UNCHANGED <<docVars, scale, zoom_level, auto_fit, base_scale, photo, img_origin,
                             toggleVars, canvas, timers, outputVars, dialog, pureVars>>

\* _on_mouse_drag to canvas point (ex, ey)
OnMouseDrag(ex, ey) ==
    IF sel_start = None \/ img_origin = None
    THEN UNCHANGED vars
    ELSE /\ sel_end' = <<ex - img_origin[1], ey - img_origin[2]>>
         /\ UNCHANGED <<docVars, scale, zoom_level, auto_fit, base_scale, photo, img_origin,
                        sel_start, sel_drawn, toggleVars, canvas, timers, outputVars, dialog,
                        pureVars>>

\* _on_mouse_up
OnMouseUp == UNCHANGED vars

---------------------------------------------------------------------------
(* Opening documents and moving between pages *)

\* _load_recent_files, data being the list on disk
LoadRecentFiles(data) == SelectSeq(data, LAMBDA q : q \in Existing)

\* str(Path(path).absolute())
Absolute(path) == IF StartsWith(path, "/") THEN path ELSE Cwd \o "/" \o path

\* a variant of _add_to_recent that leaves an earlier entry of the path in place
AddToRecentKeepingOld(path) ==
    LET added == <<Absolute(path)>> \o recent_files
    IN SubSeq(added, 1, Min(Len(added), MaxRecent))

\* _add_to_recent: the list after adding path
AddToRecent(path) ==
    LET without == SelectSeq(recent_files, LAMBDA q : q # Absolute(path))
        added == <<Absolute(path)>> \o without
    IN SubSeq(added, 1, Min(Len(added), MaxRecent))

\* open_pdf(path) followed by the page jump of open_from_url to page index target
\* (any target outside 0..page_count-1: no jump); dlg is the last dialog shown so far
OpenThenJump(path, dlg, target) ==
    IF path = ""
    THEN /\ dialog' = dlg
         /\ UNCHANGED <<docVars, renderVars, zoom_level, auto_fit, toggleVars, canvas,
                        outputVars, pureVars>>
    ELSE IF path \notin Openable
    THEN /\ doc' = NoDoc
         /\ pdf_path' = NoDoc
         /\ dialog' = <<"error", "Error", "Failed to open PDF">>
         /\ UNCHANGED <<page_index, recent_files, renderVars, zoom_level, auto_fit, toggleVars,
                        canvas, outputVars, pureVars>>
    ELSE
      LET jump == 0 <= target /\ target < PageCount(path)
          p == IF jump THEN target ELSE 0
          deferred == Max(canvas[1], 1) <= 1 \/ Max(canvas[2], 1) <= 1
          \* the jump renders a second time
          t == IF jump /\ deferred THEN timers + 1 ELSE timers
      IN /\ doc' = path
         /\ pdf_path' = path
         /\ page_index' = p
         /\ recent_files' = AddToRecent(path)
         /\ RenderCurrentPage(path, p, zoom_level, auto_fit, canvas, t)
         /\ dialog' = dlg
         /\ UNCHANGED <<zoom_level, auto_fit, toggleVars, canvas, outputVars, pureVars>>

\* open_pdf(path)
OpenPath(path, dlg) == OpenThenJump(path, dlg, -1)

\* open_pdf() from the "Open PDF" button: the file dialog returns chosen
OpenPdf(chosen) == OpenPath(chosen, <<"open", "Open PDF", "">>)

\* open_recent: the popup menu, and the entry picked from it (0: the menu is dismissed)
OpenRecent(pick) ==
    IF recent_files = <<>>
    THEN /\ dialog' = <<"info", "Open Recent", "No recent files">>
         /\ UNCHANGED <<docVars, renderVars, zoom_level, auto_fit, toggleVars, canvas,
                        outputVars, pureVars>>
    ELSE IF pick \in 1..Len(recent_files)
    THEN OpenPath(recent_files[pick], dialog)
    ELSE UNCHANGED vars

\* prev_page
PrevPage ==
    IF doc = NoDoc THEN UNCHANGED vars
    ELSE IF page_index > 0
    THEN /\ page_index' = page_index - 1
         /\ RenderCurrentPage(doc, page_index - 1, zoom_level, auto_fit, canvas, timers)
         /\ UNCHANGED <<doc, pdf_path, recent_files, zoom_level, auto_fit, toggleVars, canvas,
                        outputVars, dialog, pureVars>>
    ELSE UNCHANGED vars

\* a variant of next_page that also steps from the last page
NextPagePastEnd ==
    IF doc = NoDoc THEN UNCHANGED vars
    ELSE IF page_index < PageCount(doc)
    THEN /\ page_index' = page_index + 1
         /\ RenderCurrentPage(doc, page_index + 1, zoom_level, auto_fit, canvas, timers)
         /\ UNCHANGED <<doc, pdf_path, recent_files, zoom_level, auto_fit, toggleVars, canvas,
                        outputVars, dialog, pureVars>>
    ELSE UNCHANGED vars

\* next_page
NextPage ==
    IF doc = NoDoc THEN UNCHANGED vars
    ELSE IF page_index < PageCount(doc) - 1
    THEN /\ page_index' = page_index + 1
         /\ RenderCurrentPage(doc, page_index + 1, zoom_level, auto_fit, canvas, timers)
         /\ UNCHANGED <<doc, pdf_path, recent_files, zoom_level, auto_fit, toggleVars, canvas,
                        outputVars, dialog, pureVars>>
    ELSE UNCHANGED vars

\* what the user may have typed into the page entry
PageEntries == {"1", "2", "3", " 2 ", "0", "4", "-1", "x", ""}

\* goto_page, with entry the text of the page entry
GotoPage(entry) ==
    IF doc = NoDoc THEN UNCHANGED vars
    ELSE
      LET page_num == PyInt(entry)
      IN IF ~page_num[1]
         THEN /\ dialog' = <<"warning", "Go to Page", "Please enter a valid page number">>
              /\ UNCHANGED <<docVars, renderVars, zoom_level, auto_fit, toggleVars, canvas,
                             outputVars, pureVars>>
         ELSE IF 1 <= page_num[2] /\ page_num[2] <= PageCount(doc)
         THEN /\ page_index' = page_num[2] - 1
              /\ RenderCurrentPage(doc, page_num[2] - 1, zoom_level, auto_fit, canvas, timers)
              /\ UNCHANGED <<doc, pdf_path, recent_files, zoom_level, auto_fit, toggleVars,
                             canvas, outputVars, dialog, pureVars>>
         ELSE /\ dialog' = <<"warning", "Go to Page", "Page must be between 1 and page_count">>
              /\ UNCHANGED <<docVars, renderVars, zoom_level, auto_fit, toggleVars, canvas,
                             outputVars, pureVars>>

\* the file a download is saved to (tempfile.NamedTemporaryFile)
TempFile == "/tmp/dl.pdf"

\* URLs the user may enter, as urlparse splits them; the server of "/gone.pdf"
\* does not answer
Urls ==
    {[scheme |-> "", path |-> "", fragment |-> ""],
     [scheme |-> "file", path |-> "/a.pdf", fragment |-> ""],
     [scheme |-> "file", path |-> "c.pdf", fragment |-> ""],
     [scheme |-> "file", path |-> "/b.pdf", fragment |-> "page=3"],
     [scheme |-> "file", path |-> "/b.pdf", fragment |-> "page=4"],
     [scheme |-> "file", path |-> "/a.pdf", fragment |-> "page=0"],
     [scheme |-> "file", path |-> "/a.pdf", fragment |-> "page=two"],
     [scheme |-> "file", path |-> "/a.pdf", fragment |-> "zoom=2"],
     [scheme |-> "file", path |-> "/missing.pdf", fragment |-> "page=2"],
     [scheme |-> "file", path |-> "/broken.pdf", fragment |-> "page=1"],
     [scheme |-> "https", path |-> "/paper.pdf", fragment |-> "page=2"],
     [scheme |-> "http", path |-> "/gone.pdf", fragment |-> ""],
     [scheme |-> "ftp", path |-> "/a.pdf", fragment |-> ""]}

\* the 0-based page named by a "#page=N" fragment, or -1
TargetPage(fragment) ==
    IF fragment # "" /\ StartsWith(fragment, "page=")
    THEN LET n == PyInt(SplitOn(fragment, "=")[2])
         IN IF n[1] THEN n[2] - 1 ELSE -1
    ELSE -1

\* open_from_url, with url the parsed text of the URL entry
OpenFromUrl(url) ==
    LET showError(text) ==
            /\ dialog' = <<"error", "Error", text>>
            /\ UNCHANGED <<docVars, renderVars, zoom_level, auto_fit, toggleVars, canvas,
                           outputVars, pureVars>>
    IN IF url.scheme = "" /\ url.path = "" /\ url.fragment = ""
       THEN UNCHANGED vars
       ELSE IF url.scheme = "file"
       THEN IF url.path \notin Existing
            THEN showError("File not found")
            ELSE OpenThenJump(url.path, dialog, TargetPage(url.fragment))
       ELSE IF url.scheme \in {"http", "https"}
       THEN IF url.path = "/gone.pdf"
            THEN showError("Failed to open from URL")
            ELSE OpenThenJump(TempFile, dialog, TargetPage(url.fragment))
       ELSE showError("Unsupported URL scheme")

---------------------------------------------------------------------------
(* SVG export *)

\* The SVG text of an export is the renderer's; the model keeps of it what the
\* program decides: the text_as_path flag handed to get_svg_image and the rewrite
\* passes applied to the result, in the order of application.
RenderedSvg(text_as_path) == [text_as_path |-> text_as_path, passes |-> <<>>]

\* svg = self._remove_svg_kerning(svg), and likewise for the other two passes
Rewritten(s, name) == [s EXCEPT !.passes = Append(@, name)]

\* a variant of lines 473-483 that converts to grayscale before it removes the
\* background
ApplyPassesGrayFirst(s0) ==
    LET s1 == IF preserve_text /\ remove_kerning THEN Rewritten(s0, "kerning") ELSE s0
        s2 == IF convert_grayscale THEN Rewritten(s1, "grayscale") ELSE s1
        s3 == IF remove_background THEN Rewritten(s2, "background") ELSE s2
    IN s3

\* a variant of lines 473-483 that merges kerning whenever its own toggle is set
ApplyPassesKerningAlone(s0) ==
    LET s1 == IF remove_kerning THEN Rewritten(s0, "kerning") ELSE s0
        s2 == IF remove_background THEN Rewritten(s1, "background") ELSE s1
        s3 == IF convert_grayscale THEN Rewritten(s2, "grayscale") ELSE s2
    IN s3

\* lines 473-483 of _svg_from_selection: the rewrite passes asked for
ApplyPasses(s0) ==
    LET s1 == IF preserve_text /\ remove_kerning THEN Rewritten(s0, "kerning") ELSE s0
        s2 == IF remove_background THEN Rewritten(s1, "background") ELSE s1
        s3 == IF convert_grayscale THEN Rewritten(s2, "grayscale") ELSE s2
    IN s3

\* _svg_from_selection: the SVG, with the page and the clip given to show_pdf_page,
\* or the message of the RuntimeError it raises
SvgFromSelection ==
    IF doc = NoDoc THEN [ok |-> FALSE, error |-> "No PDF open"]
    ELSE
      LET clip_rect == SelectionPdfRect
      IN IF clip_rect = None \/ ~RectTruthy(clip_rect)
         THEN [ok |-> FALSE, error |-> "No valid selection to export"]
         ELSE IF RectEmpty(clip_rect)
         THEN [ok |-> FALSE, error |-> "Selection has zero size"]
         ELSE [ok |-> TRUE, src_pno |-> page_index, clip |-> clip_rect,
               svg |-> ApplyPasses(RenderedSvg(~preserve_text))]

\* export_selection_as_svg: the save dialog returns path ("" when dismissed), and
\* writing the file succeeds or raises (written)
ExportSelectionAsSvg(path, written) ==
    LET r == SvgFromSelection
    IN /\ IF ~r.ok
          THEN /\ dialog' = <<"warning", "Export SVG", r.error>>
               /\ saved' = saved
          ELSE IF path = ""
          THEN /\ dialog' = <<"save", "Save SVG", "">>
               /\ saved' = saved
          ELSE IF written
          THEN /\ saved' = r.svg
               /\ dialog' = <<"info", "Export SVG", "Saved">>
          ELSE /\ saved' = saved
               /\ dialog' = <<"error", "Export SVG", "Failed to save SVG">>
       /\ UNCHANGED <<docVars, renderVars, zoom_level, auto_fit, toggleVars, canvas, clipboard,
                      pureVars>>

\* copy_svg_to_clipboard: setting the clipboard succeeds or raises (copied)
CopySvgToClipboard(copied) ==
    LET r == SvgFromSelection
    IN /\ IF ~r.ok
          THEN /\ dialog' = <<"warning", "Copy SVG", r.error>>
               /\ clipboard' = clipboard
          ELSE IF copied
          THEN /\ clipboard' = r.svg
               /\ dialog' = <<"info", "Copy SVG", "SVG code copied to clipboard">>
          ELSE /\ clipboard' = clipboard
               /\ dialog' = <<"error", "Copy SVG", "Failed to copy SVG">>
       /\ UNCHANGED <<docVars, renderVars, zoom_level, auto_fit, toggleVars, canvas, saved,
                      pureVars>>

\* the four check buttons
TogglePreserveText ==
    /\ preserve_text' = ~preserve_text
    /\ UNCHANGED <<docVars, renderVars, zoom_level, auto_fit, remove_kerning, remove_background,
                   convert_grayscale, canvas, outputVars, dialog, pureVars>>

ToggleRemoveKerning ==
    /\ remove_kerning' = ~remove_kerning
    /\ UNCHANGED <<docVars, renderVars, zoom_level, auto_fit, preserve_text, remove_background,
                   convert_grayscale, canvas, outputVars, dialog, pureVars>>

ToggleRemoveBackground ==
    /\ remove_background' = ~remove_background
    /\ UNCHANGED <<docVars, renderVars, zoom_level, auto_fit, preserve_text, remove_kerning,
                   convert_grayscale, canvas, outputVars, dialog, pureVars>>

ToggleConvertGrayscale ==
    /\ convert_grayscale' = ~convert_grayscale
    /\ UNCHANGED <<docVars, renderVars, zoom_level, auto_fit, preserve_text, remove_kerning,
                   remove_background, canvas, outputVars, dialog, pureVars>>

---------------------------------------------------------------------------
(* The three rewrite passes, on the text of an SVG document *)

MinOf(S) == CHOOSE i \in S : \A j \in S : i <= j
MaxOf(S) == CHOOSE i \in S : \A j \in S : i >= j

\* str.split(): the words of s between runs of whitespace
RECURSIVE SplitWords(_)
SplitWords(s) ==
    LET t == LStrip(s)
        gaps == {i \in 1..Len(t) : IsSpace(Char(t, i))}
        e == IF gaps = {} THEN Len(t) + 1 ELSE MinOf(gaps)
    IN IF Len(t) = 0 THEN <<>> ELSE <<Take(t, e - 1)>> \o SplitWords(Drop(t, e - 1))

\* key[^"]+" matched at position i (key is x=" or y="): the position of the
\* closing quote, or 0 when there is no match at i
QuotedAt(s, key, i) ==
    LET c == Find(s, "\"", i + Len(key))
    IN IF OccursAt(s, key, i) /\ c > i + Len(key) THEN c ELSE 0

\* re.search(key + '([^"]+)"', s).group(1), or "" when the search finds nothing
\* (a group is never empty)
SearchQuoted(s, key) ==
    LET hits == {i \in 1..Len(s) : QuotedAt(s, key, i) # 0}
    IN IF hits = {} THEN ""
       ELSE SubSeq(s, MinOf(hits) + Len(key), QuotedAt(s, key, MinOf(hits)) - 1)

\* re.search(r'>([^<]+)<', s) finds something
SearchText(s) ==
    \E g \in 1..Len(s) : Char(s, g) = ">" /\ Find(s, "<", g + 1) > g + 1

\* re.sub(key + '[^"]+"', key + val + '"', s) on what follows position i - 1:
\* the leftmost match is replaced and the scan goes on after it
RECURSIVE SubQuoted(_, _, _, _)
SubQuoted(s, key, val, i) ==
    LET hits == {m \in i..Len(s) : QuotedAt(s, key, m) # 0}
        m == MinOf(hits)
    IN IF hits = {} THEN SubSeq(s, i, Len(s))
       ELSE SubSeq(s, i, m - 1) \o key \o val \o "\""
                \o SubQuoted(s, key, val, QuotedAt(s, key, m) + 1)

\* merge_text_spans(match), full_tag being match.group(0)
MergeTextSpans(full_tag) ==
    LET x_match == SearchQuoted(full_tag, "x=\"")
        y_match == SearchQuoted(full_tag, "y=\"")
        x_vals == SplitWords(x_match)
        y_vals == SplitWords(y_match)
    IN IF x_match # "" /\ y_match # "" /\ SearchText(full_tag)
          /\ Len(x_vals) > 0 /\ Len(y_vals) > 0
       THEN SubQuoted(SubQuoted(full_tag, "x=\"", x_vals[1], 1), "y=\"", y_vals[1], 1)
       ELSE full_tag

\* [^>]*>[^<]+</text> matched from position p: the position after the match, or 0
TextTailEnd(s, p) ==
    LET g == Find(s, ">", p)
        l == IF g = 0 THEN 0 ELSE Find(s, "<", g + 1)
    IN IF g # 0 /\ l > g + 1 /\ OccursAt(s, "</text>", l) THEN l + Len("</text>") ELSE 0

\* [^>]*y="[^"]*"[^>]*>[^<]+</text> matched from position p, the greedy [^>]*
\* giving way to the last y=" that lets the rest match: the position after the
\* match, or 0
YAttrEnd(s, p) ==
    LET stop == Find(s, ">", p)
        last == IF stop = 0 THEN Len(s) ELSE stop - 1
        End(q) == LET c == Find(s, "\"", q + Len("y=\""))
                  IN IF c = 0 THEN 0 ELSE TextTailEnd(s, c + 1)
        hits == {q \in p..last : OccursAt(s, "y=\"", q) /\ End(q) # 0}
    IN IF hits = {} THEN 0 ELSE End(MaxOf(hits))

\* the pattern of _remove_svg_kerning matched at position i: the position after
\* the match, or 0 when the pattern does not match at i
KernMatchEnd(s, i) ==
    LET from == i + Len("<text")
        stop == Find(s, ">", from)
        last == IF stop = 0 THEN Len(s) ELSE stop - 1
        End(q) == LET c == Find(s, "\"", q + Len("x=\""))
                  IN IF c # 0 /\ \E k \in (q + Len("x=\""))..(c - 1) : IsSpace(Char(s, k))
                     THEN YAttrEnd(s, c + 1)
                     ELSE 0
        hits == {q \in from..last : OccursAt(s, "x=\"", q) /\ End(q) # 0}
    IN IF OccursAt(s, "<text", i) /\ hits # {} THEN End(MaxOf(hits)) ELSE 0

\* re.sub(pattern, merge_text_spans, svg) on what follows position i - 1
RECURSIVE KernSub(_, _)
KernSub(s, i) ==
    LET hits == {m \in i..Len(s) : KernMatchEnd(s, m) # 0}
        m == MinOf(hits)
        e == KernMatchEnd(s, m)
    IN IF hits = {} THEN SubSeq(s, i, Len(s))
       ELSE SubSeq(s, i, m - 1) \o MergeTextSpans(SubSeq(s, m, e - 1)) \o KernSub(s, e)

\* _remove_svg_kerning(svg)
RemoveSvgKerning(s) == KernSub(s, 1)

\* is_white of _remove_svg_background
IsWhite(line) ==
    \/ Contains(line, "fill=\"#ffffff\"")
    \/ Contains(line, "fill=\"#fff\"")
    \/ Contains(line, "fill=\"rgb(255,255,255)\"")
    \/ Contains(line, "fill=\"white\"")

\* re.search(r'[HV]\s*\d{3,}', line) finds something
HasLargeHV(line) ==
    \E i \in 1..Len(line) :
        /\ Char(line, i) \in {"H", "V"}
        /\ LET after == {j \in (i + 1)..Len(line) : ~IsSpace(Char(line, j))}
           IN after # {} /\ \A k \in 0..2 : IsDigit(Char(line, MinOf(after) + k))

\* the lines _remove_svg_background leaves out
SkipLine(line) ==
    /\ IsWhite(line)
    /\ \/ Contains(line, "<rect") /\ (Contains(line, "x=\"0\"") \/ Contains(line, "y=\"0\""))
       \/ Contains(line, "<path") /\ HasLargeHV(line)

\* a variant that reads the lines with str.splitlines()
RemoveSvgBackgroundSplitlines(s) ==
    LET lines == SplitOn(s, "\n")
        read == IF lines[Len(lines)] = "" THEN SubSeq(lines, 1, Len(lines) - 1) ELSE lines
    IN Join(SelectSeq(read, LAMBDA line : ~SkipLine(line)), "\n")

\* _remove_svg_background(svg)
RemoveSvgBackground(s) ==
    Join(SelectSeq(SplitOn(s, "\n"), LAMBDA line : ~SkipLine(line)), "\n")

\* what stands for a ValueError leaving _convert_svg_grayscale
Raised == "ValueError"

\* the colours, among those over the channel values 0, 10, 20, 30, 128, 170 and
\* 255, where the double-precision sum 0.299*r + 0.587*g + 0.114*b is below its
\* exact value, an integer
FloatSumBelow == {<<128, 128, 128>>}

\* int(0.299 * r + 0.587 * g + 0.114 * b)
Gray(r, g, b) ==
    LET thousandths == 299 * r + 587 * g + 114 * b
        exact == IF thousandths < 0 THEN -((-thousandths) \div 1000)
                 ELSE thousandths \div 1000
    IN IF <<r, g, b>> \in FloatSumBelow THEN exact - 1 ELSE exact

\* rgb_to_gray(match), whole being match.group(0) and rgb_str match.group(1)
RgbToGray(whole, rgb_str) ==
    LET values == SplitOn(rgb_str, ",")
        ints == [k \in 1..3 |-> PyInt(Strip(values[k]))]
        gray == ToString(Gray(ints[1][2], ints[2][2], ints[3][2]))
    IN IF Len(values) # 3 THEN whole
       ELSE IF \E k \in 1..3 : ~ints[k][1] THEN Raised
       ELSE "rgb(" \o gray \o "," \o gray \o "," \o gray \o ")"

\* rgb\(([^)]+)\) matched at position i: the position of the closing
\* parenthesis, or 0
RgbMatchEnd(s, i) ==
    LET c == Find(s, ")", i + Len("rgb("))
    IN IF OccursAt(s, "rgb(", i) /\ c > i + Len("rgb(") THEN c ELSE 0

\* re.sub(r'rgb\(([^)]+)\)', rgb_to_gray, svg) on what follows position i - 1,
\* done being the text already produced: the text, or Raised
RECURSIVE RgbSub(_, _, _)
RgbSub(s, i, done) ==
    LET hits == {m \in i..Len(s) : RgbMatchEnd(s, m) # 0}
        m == MinOf(hits)
        c == RgbMatchEnd(s, m)
        gray == RgbToGray(SubSeq(s, m, c), SubSeq(s, m + Len("rgb("), c - 1))
    IN IF hits = {} THEN done \o SubSeq(s, i, Len(s))
       ELSE IF gray = Raised THEN Raised
       ELSE RgbSub(s, c + 1, done \o SubSeq(s, i, m - 1) \o gray)

HexDigits == "0123456789abcdef"
IsHexDigit(c) == Len(c) = 1 /\ (Contains(HexDigits, c) \/ Contains("ABCDEF", c))

\* int(c, 16) of one digit
HexValue(c) ==
    IF Contains(HexDigits, c) THEN Find(HexDigits, c, 1) - 1
    ELSE Find("ABCDEF", c, 1) + 9

\* int(h, 16) of two digits
HexByte(h) == 16 * HexValue(Char(h, 1)) + HexValue(Char(h, 2))

\* f'{n:02x}' of a number below 256
GrayHex(n) == Char(HexDigits, (n \div 16) + 1) \o Char(HexDigits, (n % 16) + 1)

\* hex_to_gray(match), hex_color being match.group(1)
HexToGray(hex_color) ==
    LET gray_hex == GrayHex(Gray(HexByte(SubSeq(hex_color, 1, 2)),
                                 HexByte(SubSeq(hex_color, 3, 4)),
                                 HexByte(SubSeq(hex_color, 5, 6))))
    IN "#" \o gray_hex \o gray_hex \o gray_hex

\* #([0-9a-fA-F]{6}) matches at position i
HexMatchAt(s, i) ==
    /\ Char(s, i) = "#"
    /\ i + 6 <= Len(s)
    /\ \A k \in 1..6 : IsHexDigit(Char(s, i + k))

\* re.sub(r'#([0-9a-fA-F]{6})', hex_to_gray, svg) on what follows position i - 1
RECURSIVE HexSub(_, _)
HexSub(s, i) ==
    LET hits == {m \in i..Len(s) : HexMatchAt(s, m)}
        m == MinOf(hits)
    IN IF hits = {} THEN SubSeq(s, i, Len(s))
       ELSE SubSeq(s, i, m - 1) \o HexToGray(SubSeq(s, m + 1, m + 6)) \o HexSub(s, m + 7)

\* _convert_svg_grayscale(svg): the document returned, or Raised
ConvertSvgGrayscale(s) ==
    LET rgb_done == RgbSub(s, 1, "")
    IN IF rgb_done = Raised THEN Raised ELSE HexSub(rgb_done, 1)

---------------------------------------------------------------------------
(* The documents handed to the rewrite passes *)

\* An element is [tag, attrs, body]: attrs a sequence of <<name, value>>, body
\* the text between the tags ("" for an element closed in its own tag).  A
\* document is a sequence of [elem, nl]: nl says a line break follows.

RECURSIVE AttrsText(_)
AttrsText(attrs) ==
    IF attrs = <<>> THEN ""
    ELSE " " \o attrs[1][1] \o "=\"" \o attrs[1][2] \o "\"" \o AttrsText(Tail(attrs))

ElementText(e) ==
    "<" \o e.tag \o AttrsText(e.attrs)
        \o (IF e.body = "" THEN "/>" ELSE ">" \o e.body \o "</" \o e.tag \o ">")

\* the lines of a document, each the sequence of its elements
RECURSIVE LinesOf(_)
LinesOf(items) ==
    IF items = <<>> THEN << <<>> >>
    ELSE LET rest == LinesOf(Tail(items))
         IN IF items[1].nl THEN << <<items[1].elem>> >> \o rest
            ELSE << <<items[1].elem>> \o rest[1] >> \o Tail(rest)

RECURSIVE LineText(_)
LineText(line) ==
    IF line = <<>> THEN "" ELSE ElementText(line[1]) \o LineText(Tail(line))

LinesText(lines) == Join([k \in 1..Len(lines) |-> LineText(lines[k])], "\n")

DocumentText(items) == LinesText(LinesOf(items))

Text(attrs, body) == [tag |-> "text", attrs |-> attrs, body |-> body]
Shape(tag, attrs) == [tag |-> tag, attrs |-> attrs, body |-> ""]

\* text elements, as get_svg_image(text_as_path=False) positions them
TextElements == {
    Text(<< <<"x", "10 20 30">>, <<"y", "5 5 5">> >>, "abc"),
    Text(<< <<"x", "10">>, <<"y", "5">> >>, "a"),
    Text(<< <<"y", "5 5">>, <<"x", "10 20">> >>, "ab"),
    Text(<< <<"x", "10 20">>, <<"y", "5 5">>, <<"font-family", "Arial">> >>, "ab"),
    Text(<< <<"dx", "1 2">>, <<"x", "10">>, <<"y", "5">> >>, "ab"),
    Shape("rect", << <<"x", "0">>, <<"y", "0">>, <<"fill", "#ffffff">> >>) }

\* rectangles, paths and a circle, white or not, at the origin or not
ShapeElements == {
    Shape("rect", << <<"x", "0">>, <<"y", "0">>, <<"width", "612">>, <<"fill", "#ffffff">> >>),
    Shape("rect", << <<"x", "0">>, <<"y", "50">>, <<"width", "10">>, <<"fill", "white">> >>),
    Shape("rect", << <<"x", "10">>, <<"y", "20">>, <<"width", "10">>, <<"fill", "#fff">> >>),
    Shape("rect", << <<"x", "0">>, <<"y", "0">>, <<"width", "612">>, <<"fill", "#ff0000">> >>),
    Shape("path", << <<"fill", "rgb(255,255,255)">>, <<"d", "M0 0H 612V792H0Z">> >>),
    Shape("path", << <<"fill", "white">>, <<"d", "M1 1H50V20Z">> >>),
    Shape("circle", << <<"cx", "5">>, <<"cy", "5">>, <<"r", "2">>, <<"fill", "black">> >>) }

\* the colour notations of a fill
Colours == {"rgb(255,0,0)", "rgb(128,128,128)", "rgb( 10 , 20 ,30)", "rgb(100%,0%,0%)",
            "#FFAA00", "#f00", "red"}

ColourElements == {Shape("path", << <<"fill", c>>, <<"d", "M1 1H5Z">> >>) : c \in Colours}

\* the documents of at most MaxElements elements from one of the three families
DocumentsOver(elems) ==
    UNION {[1..k -> [elem : elems, nl : BOOLEAN]] : k \in 1..MaxElements}

Documents ==
    DocumentsOver(TextElements) \cup DocumentsOver(ShapeElements)
        \cup DocumentsOver(ColourElements)

\* one call of a rewrite pass on the document at hand
RunPass(name, result) ==
    /\ svg # NoText
    /\ pass' = name
    /\ svg_out' = result
    /\ UNCHANGED <<appVars, pdf_rect, elements, svg>>

CallRemoveSvgKerning == RunPass("kerning", RemoveSvgKerning(svg))
CallRemoveSvgBackground == RunPass("background", RemoveSvgBackground(svg))
CallConvertSvgGrayscale == RunPass("grayscale", ConvertSvgGrayscale(svg))

---------------------------------------------------------------------------
(* The application *)

\* no SVG: an empty clipboard, no file written
NoSvg == [text_as_path |-> FALSE, passes |-> <<"none">>]
NoDialog == <<"none", "", "">>

NoCall == [sel |-> None, scale |-> <<1, 1>>, rect |-> None]

\* __init__, data being the recent-files list on disk
Constructed(data) ==
    /\ doc = NoDoc
    /\ pdf_path = NoDoc
    /\ page_index = 0
    /\ scale = <<1, 1>>
    /\ zoom_level = ZoomUnit
    /\ auto_fit = TRUE
    /\ base_scale = None
    /\ photo = None
    /\ img_origin = None
    /\ sel_start = None
    /\ sel_end = None
    /\ sel_drawn = None
    /\ recent_files = LoadRecentFiles(data)
    /\ preserve_text = TRUE
    /\ remove_kerning = FALSE
    /\ remove_background = FALSE
    /\ convert_grayscale = FALSE
    /\ canvas = Unrealized
    /\ timers = 0
    /\ clipboard = NoSvg
    /\ saved = NoSvg
    /\ dialog = NoDialog

\* __init__ with no recent-files list on disk
AppInit == Constructed(<<>>)

\* the application as constructed, no pure function called yet
Init ==
    /\ AppInit
    /\ pdf_rect = NoCall
    /\ elements = <<>>
    /\ svg = NoText
    /\ pass = "none"
    /\ svg_out = NoText

\* the zoom levels within k zoom events of 1.0x
RECURSIVE ZoomReach(_)
ZoomReach(k) ==
    IF k = 0 THEN {ZoomUnit}
    ELSE LET near == ZoomReach(k - 1)
         IN near \cup {NewZoom(z, dir) : z \in near, dir \in {"in", "out"}}

\* zoom events, taken while the result stays within MaxZoomEvents events of 1.0x
ZoomEvent == \E dir \in {"in", "out", "none"} :
    /\ zoom_level \in ZoomReach(MaxZoomEvents - 1)
    /\ OnZoom(dir)

Next ==
    \/ \E chosen \in OpenChoices : OpenPdf(chosen)
    \/ \E pick \in 0..2 : OpenRecent(pick)
    \/ \E url \in Urls : OpenFromUrl(url)
    \/ PrevPage
    \/ NextPage
    \/ \E entry \in PageEntries : GotoPage(entry)
    \/ \E size \in RealizedSizes : OnCanvasResize(size)
    \/ RenderLater
    \/ ZoomEvent
    \/ \E ex \in MouseXs, ey \in MouseYs : OnMouseDown(ex, ey)
    \/ \E ex \in MouseXs, ey \in MouseYs : OnMouseDrag(ex, ey)
    \/ OnMouseUp
    \/ TogglePreserveText
    \/ ToggleRemoveKerning
    \/ ToggleRemoveBackground
    \/ ToggleConvertGrayscale
    \/ \E path \in {"", "/out.svg"}, written \in BOOLEAN : ExportSelectionAsSvg(path, written)
    \/ \E copied \in BOOLEAN : CopySvgToClipboard(copied)

\* every handler of the application, from its construction
Spec == Init /\ [][Next]_vars

\* Selecting and exporting on one document, the options left as constructed
NextExport ==
    \/ \E chosen \in {"/a.pdf", "/broken.pdf"} : OpenPdf(chosen)
    \/ OnCanvasResize(<<800, 860>>)
    \/ \E ex \in MouseXs, ey \in MouseYs : OnMouseDown(ex, ey)
    \/ \E ex \in MouseXs, ey \in MouseYs : OnMouseDrag(ex, ey)
    \/ OnMouseUp
    \/ \E path \in {"", "/out.svg"}, written \in BOOLEAN : ExportSelectionAsSvg(path, written)
    \/ \E copied \in BOOLEAN : CopySvgToClipboard(copied)

SpecExport == Init /\ [][NextExport]_vars

\* Exporting one selection under every combination of the options
NextOptions ==
    \/ OpenPdf("/a.pdf")
    \/ OnCanvasResize(<<800, 860>>)
    \/ OnMouseDown(30, 300)
    \/ OnMouseDrag(500, 500)
    \/ TogglePreserveText
    \/ ToggleRemoveKerning
    \/ ToggleRemoveBackground
    \/ ToggleConvertGrayscale
    \/ ExportSelectionAsSvg("/out.svg", TRUE)
    \/ CopySvgToClipboard(TRUE)

SpecOptions == Init /\ [][NextOptions]_vars

\* Opening, paging, zooming and resizing around a selection, the options left as
\* constructed
NextNav ==
    \/ \E chosen \in {"", "/b.pdf", "/broken.pdf"} : OpenPdf(chosen)
    \/ \E pick \in 0..2 : OpenRecent(pick)
    \/ \E url \in {u \in Urls : u.path \in {"/b.pdf", "/paper.pdf"}} : OpenFromUrl(url)
    \/ PrevPage
    \/ NextPage
    \/ \E entry \in {"1", "3", "0"} : GotoPage(entry)
    \/ \E size \in RealizedSizes : OnCanvasResize(size)
    \/ RenderLater
    \/ ZoomEvent
    \/ OnMouseDown(30, 300)
    \/ \E ex \in {10, 500} : OnMouseDrag(ex, 500)
    \/ ExportSelectionAsSvg("/out.svg", TRUE)
    \/ CopySvgToClipboard(TRUE)

SpecNav == Init /\ [][NextNav]_vars

\* Selections on an ordinary and on a very large page, and calls of
\* _selection_pdf_rect
NextRect ==
    \/ \E chosen \in {"/a.pdf", "/huge.pdf"} : OpenPdf(chosen)
    \/ \E size \in RealizedSizes : OnCanvasResize(size)
    \/ \E ex \in MouseXs : OnMouseDown(ex, 300)
    \/ \E ex \in MouseXs, ey \in MouseYs : OnMouseDrag(ex, ey)
    \/ CallSelectionPdfRect

SpecRect == Init /\ [][NextRect]_vars

\* The rewrite passes, each called on every document of Documents
InitPasses ==
    /\ AppInit
    /\ pdf_rect = NoCall
    /\ \E d \in Documents : elements = d /\ svg = DocumentText(d)
    /\ pass = "none"
    /\ svg_out = NoText

NextPasses ==
    \/ CallRemoveSvgKerning
    \/ CallRemoveSvgBackground
    \/ CallConvertSvgGrayscale

SpecPasses == InitPasses /\ [][NextPasses]_vars

\* Opening documents by dialog, recent list and URL, and moving between pages
NextPages ==
    \/ \E chosen \in {"", "/a.pdf", "/b.pdf", "/broken.pdf"} : OpenPdf(chosen)
    \/ \E pick \in 0..2 : OpenRecent(pick)
    \/ \E url \in Urls : OpenFromUrl(url)
    \/ PrevPage
    \/ NextPage
    \/ \E entry \in PageEntries : GotoPage(entry)
    \/ OnCanvasResize(<<800, 860>>)
    \/ RenderLater

SpecPages == Init /\ [][NextPages]_vars

\* Zooming in and out without limit on one document, around a selection
NextZoom ==
    \/ OpenPdf("/a.pdf")
    \/ OnCanvasResize(<<800, 860>>)
    \/ RenderLater
    \/ \E dir \in {"in", "out", "none"} : OnZoom(dir)
    \/ OnMouseDown(30, 300)
    \/ OnMouseDrag(500, 500)

SpecZoom == Init /\ [][NextZoom]_vars

\* Opening and re-opening files, from a recent-files list of an earlier run
InitRecent ==
    /\ \E data \in SavedLists : Constructed(data)
    /\ pdf_rect = NoCall
    /\ elements = <<>>
    /\ svg = NoText
    /\ pass = "none"
    /\ svg_out = NoText

NextRecent ==
    \/ \E chosen \in {"", "/a.pdf", "/b.pdf", "/broken.pdf"} : OpenPdf(chosen)
    \/ \E pick \in 0..2 : OpenRecent(pick)
    \/ OpenFromUrl([scheme |-> "file", path |-> "c.pdf", fragment |-> ""])
    \/ OnCanvasResize(<<800, 860>>)
    \/ RenderLater

SpecRecent == InitRecent /\ [][NextRecent]_vars

---------------------------------------------------------------------------
(* C1: the PDF-space rectangle of a selection *)

\* the selection sel (image pixels) divided by sc is exactly the rectangle r
IsSelectionOverScale(r, sel, sc) == \A i \in 1..4 : RatMul(r[i], sc) = <<sel[i], 1>>

\* left <= right and top <= bottom
Oriented(r) == RatLeq(r[1], r[3]) /\ RatLeq(r[2], r[4])

\* C1 as stated: for every valid selection and every positive render scale,
\* _selection_pdf_rect returns exactly (x0, y0, x1, y1) / scale, left <= right and
\* top <= bottom.
C1_EveryPositiveScale ==
    pdf_rect.rect # None =>
        /\ IsSelectionOverScale(pdf_rect.rect, pdf_rect.sel, pdf_rect.scale)
        /\ Oriented(pdf_rect.rect)

\* C1, amended: for every valid selection and every render scale of at least 1e-6,
\* _selection_pdf_rect returns exactly (x0, y0, x1, y1) / scale, with left <= right
\* and top <= bottom; at a smaller positive scale it divides by 1e-6 instead.
C1_ScaleAtLeastMin ==
    pdf_rect.rect # None =>
        /\ Oriented(pdf_rect.rect)
        /\ IF RatLeq(<<1, MinScaleInverse>>, pdf_rect.scale)
           THEN IsSelectionOverScale(pdf_rect.rect, pdf_rect.sel, pdf_rect.scale)
           ELSE IsSelectionOverScale(pdf_rect.rect, pdf_rect.sel, <<1, MinScaleInverse>>)

\* a rectangle returned for a selection away from the image's corner, at a scale
\* that is no whole number
C1_Witness ==
    /\ pdf_rect.rect # None
    /\ pdf_rect.scale = <<121, 12>>
    /\ pdf_rect.sel[1] > 0 /\ pdf_rect.sel[2] > 0

---------------------------------------------------------------------------
(* C2, C3: the rewrite passes of an export *)

PassRank(name) ==
    CASE name = "kerning" -> 1
      [] name = "background" -> 2
      [] name = "grayscale" -> 3
      [] OTHER -> 0

InFixedOrder(passes) ==
    \A i, j \in 1..Len(passes) : i < j => PassRank(passes[i]) < PassRank(passes[j])

Applied(s, name) == \E i \in 1..Len(s.passes) : s.passes[i] = name

\* C2: the passes applied to an exported SVG were applied in the order kerning
\* merge, background removal, grayscale conversion, whatever the toggles.
C2_FixedOrder == InFixedOrder(clipboard.passes) /\ InFixedOrder(saved.passes)

\* an export to which all three passes were applied
C2_Witness == clipboard.passes = <<"kerning", "background", "grayscale">>

\* each pass was applied to s exactly when its own toggle is set
OwnToggleOnly(s) ==
    /\ Applied(s, "kerning") <=> remove_kerning
    /\ Applied(s, "background") <=> remove_background
    /\ Applied(s, "grayscale") <=> convert_grayscale

\* as OwnToggleOnly, but kerning merge also needs preserve-text
OwnToggleAndPreserveText(s) ==
    /\ Applied(s, "kerning") <=> (remove_kerning /\ preserve_text)
    /\ Applied(s, "background") <=> remove_background
    /\ Applied(s, "grayscale") <=> convert_grayscale

\* C3 as stated: an export applies each of the three passes exactly when its own
\* toggle is enabled, whatever the other options, preserve-text included.
C3_OwnToggleOnly ==
    [][/\ clipboard' # clipboard => OwnToggleOnly(clipboard')
       /\ saved' # saved => OwnToggleOnly(saved')]_vars

\* C3, amended: an export applies background removal and grayscale conversion
\* exactly when their own toggles are enabled, and kerning merge exactly when both
\* its own toggle and preserve-text are enabled.
C3_KerningNeedsPreserveText ==
    [][/\ clipboard' # clipboard => OwnToggleAndPreserveText(clipboard')
       /\ saved' # saved => OwnToggleAndPreserveText(saved')]_vars

\* an export with text as paths, from which the kerning pass is absent while its
\* toggle is set
C3_Witness ==
    /\ saved.text_as_path /\ saved.passes = <<"background">>
    /\ remove_kerning /\ ~preserve_text /\ remove_background /\ ~convert_grayscale

---------------------------------------------------------------------------
(* C4: the kerning merge *)

\* the value of the attribute of an element, "" when it has none of that name
AttrValue(e, name) ==
    LET at == {k \in 1..Len(e.attrs) : e.attrs[k][1] = name}
    IN IF at = {} THEN "" ELSE e.attrs[MinOf(at)][2]

\* the same lines, each element replaced by F of it
MapLines(lines, F(_)) ==
    [l \in 1..Len(lines) |-> [k \in 1..Len(lines[l]) |-> F(lines[l][k])]]

CarriesCoordinateLists(e) ==
    /\ e.tag = "text"
    /\ Len(SplitWords(AttrValue(e, "x"))) > 1
    /\ Len(SplitWords(AttrValue(e, "y"))) > 1

\* the element with the first value only in its x and y attributes
FirstPairOnly(e) ==
    [e EXCEPT !.attrs = [k \in 1..Len(e.attrs) |->
        IF e.attrs[k][1] \in {"x", "y"}
        THEN <<e.attrs[k][1], SplitWords(e.attrs[k][2])[1]>>
        ELSE e.attrs[k]]]

KerningMerged(e) == IF CarriesCoordinateLists(e) THEN FirstPairOnly(e) ELSE e

\* C4: _remove_svg_kerning returns the document in which every text element
\* with several x and several y coordinates has only the first of each, its
\* text and other attributes as they were, and every other element (a text
\* element with one coordinate pair among them) is as it was.
C4_KerningMerge ==
    pass = "kerning" => svg_out = LinesText(MapLines(LinesOf(elements), KerningMerged))

---------------------------------------------------------------------------
(* C5, C6: the background removal *)

WhiteFills == {"#ffffff", "#fff", "rgb(255,255,255)", "white"}

IsWhiteOriginRect(e) ==
    /\ e.tag = "rect"
    /\ AttrValue(e, "fill") \in WhiteFills
    /\ AttrValue(e, "x") = "0"
    /\ AttrValue(e, "y") = "0"

IsLargeWhitePath(e) ==
    /\ e.tag = "path"
    /\ AttrValue(e, "fill") \in WhiteFills
    /\ HasLargeHV(AttrValue(e, "d"))

\* C5: of a document that is one rectangle, _remove_svg_background drops the
\* rectangle exactly when its fill is pure white and its x and y are both 0.
C5_WhiteOriginRectOnly ==
    (pass = "background" /\ Len(elements) = 1 /\ elements[1].elem.tag = "rect")
        => (~Contains(svg_out, ElementText(elements[1].elem))
                <=> IsWhiteOriginRect(elements[1].elem))

Targeted(e) == IsWhiteOriginRect(e) \/ IsLargeWhitePath(e)

\* the lines without the targeted elements, a line that held nothing else
\* being dropped
WithoutTargeted(lines) ==
    SelectSeq(lines, LAMBDA line : line = <<>> \/ \E k \in 1..Len(line) : ~Targeted(line[k]))

RECURSIVE KeepOthers(_)
KeepOthers(lines) ==
    IF lines = <<>> THEN <<>>
    ELSE <<SelectSeq(lines[1], LAMBDA e : ~Targeted(e))>> \o KeepOthers(Tail(lines))

\* a white rectangle with one of x and y at 0 and the other not
OnOneAxis(e) ==
    /\ e.tag = "rect"
    /\ AttrValue(e, "fill") \in WhiteFills
    /\ (AttrValue(e, "x") = "0") # (AttrValue(e, "y") = "0")

\* C6: _remove_svg_background returns the document without its targeted
\* elements, every other element unchanged and in order, those on the line of
\* a removed element included (stated for the documents whose white rectangles
\* are at the origin or have neither x nor y at 0).
C6_OnlyTargetedRemoved ==
    (pass = "background" /\ \A i \in 1..Len(elements) : ~OnOneAxis(elements[i].elem))
        => svg_out = LinesText(KeepOthers(WithoutTargeted(LinesOf(elements))))

---------------------------------------------------------------------------
(* C7: the grayscale conversion *)

\* floor(0.299*r + 0.587*g + 0.114*b) of channel values 0..255
FloorGray(r, g, b) == (299 * r + 587 * g + 114 * b) \div 1000

\* <<r, g, b>> of a colour written rgb(r,g,b) with channels 0..255, else <<>>
RgbChannels(c) ==
    LET values == SplitOn(SubSeq(c, Len("rgb(") + 1, Len(c) - 1), ",")
        ints == [k \in 1..3 |-> PyInt(values[k])]
    IN IF StartsWith(c, "rgb(") /\ Char(c, Len(c)) = ")" /\ Len(values) = 3
          /\ \A k \in 1..3 : ints[k][1] /\ ints[k][2] \in 0..255
       THEN [k \in 1..3 |-> ints[k][2]]
       ELSE <<>>

IsSixDigitHex(c) == Len(c) = 7 /\ HexMatchAt(c, 1)

\* the colour the conversion is to write for a colour
GrayColour(c) ==
    LET ch == RgbChannels(c)
        rgb_gray == ToString(FloorGray(ch[1], ch[2], ch[3]))
        hex_gray == GrayHex(FloorGray(HexByte(SubSeq(c, 2, 3)), HexByte(SubSeq(c, 4, 5)),
                                      HexByte(SubSeq(c, 6, 7))))
    IN IF ch # <<>> THEN "rgb(" \o rgb_gray \o "," \o rgb_gray \o "," \o rgb_gray \o ")"
       ELSE IF IsSixDigitHex(c) THEN "#" \o hex_gray \o hex_gray \o hex_gray
       ELSE c

GrayFilled(e) ==
    [e EXCEPT !.attrs = [k \in 1..Len(e.attrs) |->
        IF e.attrs[k][1] = "fill" THEN <<"fill", GrayColour(e.attrs[k][2])>>
        ELSE e.attrs[k]]]

\* every fill is an rgb triple of channel values, a hex colour or a name
PlainColours(items) ==
    \A i \in 1..Len(items) :
        LET c == AttrValue(items[i].elem, "fill")
        IN StartsWith(c, "rgb(") => RgbChannels(c) # <<>>

\* C7: _convert_svg_grayscale returns a document, whatever it is given; and it
\* returns the document in which every rgb(r,g,b) and every 6-digit hex colour
\* has its three channels at floor(0.299r + 0.587g + 0.114b), 3-digit hex and
\* named colours as they were.
C7_GrayscaleFormula ==
    pass = "grayscale" =>
        /\ svg_out # Raised
        /\ PlainColours(elements)
               => svg_out = LinesText(MapLines(LinesOf(elements), GrayFilled))

---------------------------------------------------------------------------
(* C8: a pass on a document without its pattern *)

\* the document holds nothing that the pass matches
NoPattern(name, s) ==
    CASE name = "kerning" -> \A i \in 1..Len(s) : KernMatchEnd(s, i) = 0
      [] name = "background" ->
            LET lines == SplitOn(s, "\n")
            IN \A k \in 1..Len(lines) : ~SkipLine(lines[k])
      [] name = "grayscale" ->
            \A i \in 1..Len(s) : RgbMatchEnd(s, i) = 0 /\ ~HexMatchAt(s, i)

PassResult(name, s) ==
    CASE name = "kerning" -> RemoveSvgKerning(s)
      [] name = "background" -> RemoveSvgBackground(s)
      [] name = "grayscale" -> ConvertSvgGrayscale(s)

---------------------------------------------------------------------------
(* C9: exports without a document or a valid selection *)

\* the selection, clamped to the image, is at least 1 pixel wide and high
SelectionIsValid ==
    /\ sel_start # None /\ sel_end # None /\ photo # None
    /\ Abs(Clamp(sel_end[1], photo[1]) - Clamp(sel_start[1], photo[1])) >= 1
    /\ Abs(Clamp(sel_end[2], photo[2]) - Clamp(sel_start[2], photo[2])) >= 1

ExportAttempt ==
    \/ \E path \in {"", "/out.svg"}, written \in BOOLEAN : ExportSelectionAsSvg(path, written)
    \/ \E copied \in BOOLEAN : CopySvgToClipboard(copied)

\* C9: export_selection_as_svg and copy_svg_to_clipboard, without an open document
\* or without a valid selection, write no file, open no save dialog, leave the
\* clipboard and the application state as they are, and show a warning.
C9_NoOutputWithoutSelection ==
    [][(ExportAttempt /\ (doc = NoDoc \/ ~SelectionIsValid)) =>
          /\ dialog'[1] = "warning"
          /\ UNCHANGED <<docVars, renderVars, zoom_level, auto_fit, toggleVars, canvas,
                         outputVars>>]_vars

\* a warning shown for a selection that lies, after clamping, on the image's left
\* edge, with nothing exported
C9_Witness ==
    /\ dialog = <<"warning", "Export SVG", "No valid selection to export">>
    /\ doc # NoDoc /\ sel_start # None /\ sel_start[1] = 0
    /\ sel_end[1] < 0 /\ sel_end[2] # sel_start[2]
    /\ clipboard = NoSvg /\ saved = NoSvg

---------------------------------------------------------------------------
(* C10: the selection belongs to the page and scale on display *)

---------------------------------------------------------------------------
(* C11: the page index stays within the document *)

\* the page number N of a "#page=N" fragment, as <<TRUE, N>>, else <<FALSE, 0>>
FragmentPage(url) ==
    IF StartsWith(url.fragment, "page=") THEN PyInt(Drop(url.fragment, Len("page=")))
    ELSE <<FALSE, 0>>

\* the file open_from_url hands to open_pdf, "" when it hands over none
UrlFile(url) ==
    IF url.scheme = "file" /\ url.path \in Existing THEN url.path
    ELSE IF url.scheme \in {"http", "https"} /\ url.path # "/gone.pdf" THEN TempFile
    ELSE ""

\* the URL names a page number outside 1..page_count of the file it opens
NamesPageOutside(url) ==
    /\ FragmentPage(url)[1]
    /\ FragmentPage(url)[2] \notin 1..PageCount(UrlFile(url))

PageIndexInRange == doc # NoDoc => (0 <= page_index /\ page_index <= PageCount(doc) - 1)

PageIndexKeptAtEnds ==
    /\ (PrevPage /\ page_index = 0) => page_index' = page_index
    /\ (NextPage /\ doc # NoDoc /\ page_index = PageCount(doc) - 1)
           => page_index' = page_index
    /\ \A entry \in PageEntries :
           (GotoPage(entry) /\ doc # NoDoc /\ PyInt(entry)[1]
                /\ PyInt(entry)[2] \notin 1..PageCount(doc))
               => page_index' = page_index
    /\ \A url \in Urls :
           (OpenFromUrl(url) /\ NamesPageOutside(url))
               => page_index' = IF UrlFile(url) \in Openable THEN 0 ELSE page_index

---------------------------------------------------------------------------
(* C12: the zoom level and its bounds *)

ZoomInRange == MinZoom <= zoom_level /\ zoom_level <= MaxZoom

\* a zoom event that leaves the level as it is renders nothing and leaves
\* auto-fit and the selection alone; one that changes the level ends auto-fit
ZoomEffect ==
    (\E dir \in {"in", "out"} : OnZoom(dir)) =>
        IF zoom_level' = zoom_level
        THEN UNCHANGED <<auto_fit, renderVars>>
        ELSE auto_fit' = FALSE

\* C12: the zoom level stays between 0.1x and 10x; a zoom event at a bound that
\* leaves the level unchanged causes no render and changes neither auto-fit nor
\* the selection, and a zoom event that changes the level turns auto-fit off.
C12_ZoomClamped == []ZoomInRange /\ [][ZoomEffect]_vars

\* a selection drawn at 10x, where a further zoom in changes nothing
C12_Witness ==
    /\ zoom_level = MaxZoom
    /\ sel_start # None /\ sel_end # None
    /\ ~auto_fit

---------------------------------------------------------------------------
(* C13: the recent-files list *)

NoDuplicates(l) == \A i, j \in 1..Len(l) : i # j => l[i] # l[j]

RecentInOrder ==
    /\ Len(recent_files) <= MaxRecent
    /\ NoDuplicates(recent_files)
    /\ doc # NoDoc => (recent_files # <<>> /\ recent_files[1] = Absolute(pdf_path))

\* a change of the list puts the opened path on top and keeps the others in
\* their order: all of them when the path was in the list, all that fit when
\* it was not
RecentMovedToTop ==
    recent_files' # recent_files =>
        LET top == recent_files'[1]
            Others(l) == SelectSeq(l, LAMBDA q : q # top)
        IN /\ top = Absolute(pdf_path')
           /\ IF \E i \in 1..Len(recent_files) : recent_files[i] = top
              THEN Others(recent_files') = Others(recent_files)
              ELSE recent_files' =
                       SubSeq(<<top>> \o recent_files, 1,
                              Min(Len(recent_files) + 1, MaxRecent))

\* C13: the recent-files list has at most 10 paths and no path twice, with the
\* path of the last successful open on top; opening a path already listed
\* moves it to the top and leaves the others in their order.
C13_RecentFiles == []RecentInOrder /\ [][RecentMovedToTop]_vars

\* a full list after an eleventh file was opened: the oldest entry is gone
C13_Witness ==
    /\ Len(recent_files) = MaxRecent
    /\ recent_files[1] = "/b.pdf"
    /\ recent_files[MaxRecent] = OlderFiles[MaxRecent - 1]

====
